---- MODULE Spec2Model ----
(***************************************************************************)
(* Model of src/model.py: the Wavefront OBJ/MTL loader ObjModel            *)
(* (_parse_model, _parsemat, _Material), the display-list compilation      *)
(* (Model._create_displaylist, ObjModel.render), Model.draw and the        *)
(* randomized AsteroidModel; and of src/ship.py: the states of a Ship      *)
(* (fly_in, fly_out, update, thrust, turn).                                *)
(*                                                                         *)
(* A document is read one line per step; the lines are inputs.  Python     *)
(* objects that are used by identity (the _Material instances, which key   *)
(* the polys dictionary, and the numpy arrays of the vertex and normal     *)
(* tables) are references into a heap: matobjs, varr, narr.  Reference 0   *)
(* is Python's None.  Floats are small integers; 0 stands for 0.0.         *)
(* A raised exception ends the run in pc = "error" with err naming the     *)
(* Python exception; nothing catches exceptions in model.py.               *)
(***************************************************************************)
EXTENDS Integers, Sequences, FiniteSets, TLC

\* ------------------------------------------------------------------ bounds
\* records of a document, by kind
MaxVerts == 2
MaxNormals == 1
MaxFaces == 3
MaxUsemtl == 2
MaxMatFiles == 2
MaxMatLines == 3
\* the smaller documents of the specifications that need fewer records
FewFaces == 2
OneFace == 1
OneUsemtl == 1
OneMatFile == 1
ShortMatLines == 2
\* the inputs of a record
MaxFaceLen == 5
MaxIdx == 2
MaxColorLen == 5
MaxIndent == 1

\* src/ship.py: SHIP_ACCEL is 0.1 world units, kept in hundredths
SHIP_ACCEL == 10
SHIP_ROTSPEED == 4
WRAPDIST == 20
\* the frames of a fly-in and of a fly-out (the 4th argument of Quadratic)
FlyInFrames == 100
FlyOutFrames == 200
\* WIDTH, HEIGHT and distance are imported from the asteroids module, which
\* is not among the sources: the model takes a small playfield
WIDTH == 8
HEIGHT == 6
distance == 10
\* the calls of a run of the ship
MaxFlights == 1
MaxFrames == 2
\* fly_in and fly_out interrupt a flight at the frames that divide by this
FlyStride == 50
\* draw calls on a built model
MaxDraws == 2

Names == {"m1", "m2"}
ColorKeywords == {"Ka", "Kd", "Ks", "Ke"}

VARIABLES
    pc,          \* "parse" | "mat" | "parsed" | "built" | "error"
    err,         \* the exception that ended the run, "" when none
    line,        \* the line last read by _parse_model's loop
    mline,       \* the line last read by _parsemat's loop
    vertices,    \* self.vertices: Python list of references, [None] first
    normals,     \* self.normals
    varr,        \* heap of the vertex arrays: reference -> coordinates
    narr,        \* heap of the normal arrays
    mats,        \* self.mats: name -> reference of a _Material
    matobjs,     \* heap of the _Material objects
    polys,       \* self.polys: key (material reference or None) -> 3 buckets
    currentmat,  \* _parse_model's currentmat
    libfiles,    \* files of the current mtllib line still to be parsed
    matname,     \* _parsemat's matname ("" is None)
    mat,         \* _parsemat's mat (<<>> is None)
    matlines,    \* the lines read so far from the open material file
    nusemtl,     \* usemtl lines read
    nfiles,      \* material files opened
    keyorder,    \* keys of polys in the order of their first insertion
    renderlist,  \* self.renderlist (0 before glGenLists)
    displaylist, \* the GL calls recorded between glNewList and glEndList
    glcalls,     \* the GL calls made outside a recording, in order
    drawn,       \* what each glCallList so far made the backend execute
    context,     \* a rendering context is current
    scalars,     \* the values random.uniform returned, by vertex index
    _state,      \* Ship._state: 0, 1 normal control; 2 flying in; 3 flying out
    _t,          \* Ship._t: frames of the current flight
    _bezier,     \* Ship._bezier: the curve of the current flight
    _trusting,   \* Ship._trusting
    _turning,    \* Ship._turning
    pos,         \* Ship.pos
    speed,       \* Ship.speed
    theta,       \* Ship.theta
    phi,         \* Ship.phi
    rot,         \* Ship.rot
    nflights,    \* fly_in and fly_out calls made after construction
    nframes      \* update calls made in a normal-control state

vars == <<pc, err, line, mline, vertices, normals, varr, narr, mats, matobjs,
          polys, currentmat, libfiles, matname, mat, matlines, nusemtl,
          nfiles, keyorder, renderlist, displaylist, glcalls, drawn, context,
          scalars, _state, _t, _bezier, _trusting, _turning, pos, speed,
          theta, phi, rot, nflights, nframes>>

geomvars == <<vertices, normals, varr, narr, polys, currentmat, keyorder, nusemtl>>
matvars == <<mats, matobjs, libfiles, matname, mat, matlines, mline, nfiles>>
glvars == <<renderlist, displaylist, glcalls, drawn, context>>
shipvars == <<_state, _t, _bezier, _trusting, _turning, pos, speed, theta, phi,
              rot, nflights, nframes>>
\* everything of the model object and its loader
modelvars == <<pc, err, line, mline, geomvars, matvars, glvars, scalars>>

\* ------------------------------------------------------------------ values
None == 0
NoneArr == <<>>
NoMat == <<>>
DefaultColor == <<0, 0, 0, 0>>

\* A line of text: its leading whitespace, its first token, and the tokens
\* after it by kind (a name, numbers, v/t/n components, file names).
Line(indent, kw, name, nums, comps, files) ==
    [indent |-> indent, kw |-> kw, name |-> name, nums |-> nums,
     comps |-> comps, files |-> files]
NoLine == Line(0, "", "", <<>>, <<>>, 0)

\* ----------------------------------------------------------- python lists
\* list[i] of a Python list held as a sequence; "IndexError" when out of range
InRange(list, i) == i < Len(list) /\ i >= -Len(list)
PyIndex(list, i) == IF i >= 0 THEN list[i + 1] ELSE list[Len(list) + i + 1]

\* ------------------------------------------------------- _Material (l.31-50)
\* _Material.__init__: the four assertions on the lengths
MaterialOk(m) == \A i \in 1..4 : Len(m[i]) = 4
NewMaterial(m) ==
    [ambient |-> m[1], diffuse |-> m[2], specular |-> m[3], emission |-> m[4]]

\* (mutant) the two commented-out calls are made as well
Activate_AllFour(m) ==
    << <<"glMaterialfv", "GL_FRONT", "GL_AMBIENT", m.ambient>>,
       <<"glMaterialfv", "GL_FRONT", "GL_DIFFUSE", m.diffuse>>,
       <<"glMaterialfv", "GL_FRONT", "GL_SPECULAR", m.specular>>,
       <<"glMaterialfv", "GL_FRONT", "GL_EMISSION", m.emission>> >>
\* _Material.activate: ambient and diffuse only (specular, emission commented out)
Activate(m) ==
    << <<"glMaterialfv", "GL_FRONT", "GL_AMBIENT", m.ambient>>,
       <<"glMaterialfv", "GL_FRONT", "GL_DIFFUSE", m.diffuse>> >>

\* --------------------------------------------- _parse_model helpers (l.101-122)
\* one "v/t/n" component: both list lookups succeed
ComponentOk(vs, ns, comp) == InRange(vs, comp[1]) /\ InRange(ns, comp[2])
\* line.split(None, 1)[1] needs a token after "f"; then every component resolves
FaceOk(vs, ns, comps) ==
    /\ Len(comps) > 0
    /\ \A k \in 1..Len(comps) : ComponentOk(vs, ns, comps[k])
\* points.append((vertex, normalv)) for each component, in order
ResolvePoint(vs, ns, comp) == <<PyIndex(vs, comp[1]), PyIndex(ns, comp[2])>>
ResolveFace(vs, ns, comps) ==
    [k \in 1..Len(comps) |-> ResolvePoint(vs, ns, comps[k])]

\* (mutant) a face of five points is taken for a quad
ArityBucket_QuadUpTo5(n) == IF n = 3 THEN 0 ELSE IF n <= 5 THEN 1 ELSE 2
\* the index i into (triangles, quads, polygons) chosen from len(points)
ArityBucket(n) == IF n = 3 THEN 0 ELSE IF n = 4 THEN 1 ELSE 2

\* defaultdict(lambda: ([],[],[])): the value of a missing key
EmptyBuckets == << <<>>, <<>>, <<>> >>
Buckets(p, key) == IF key \in DOMAIN p THEN p[key] ELSE EmptyBuckets
\* self.polys[currentmat][i].append(points)
StorePoly(p, key, i, points) ==
    [k \in DOMAIN p \cup {key} |->
        IF k = key THEN [Buckets(p, key) EXCEPT ![i + 1] = Append(@, points)]
        ELSE p[k]]
\* (mutant) every face goes to the "no material" key
FaceKey_NoMaterial(cur) == None
\* the key currentmat selects at a face record
FaceKey(cur) == cur

RECURSIVE SumLen(_, _)
SumLen(p, keys) ==
    IF keys = {} THEN 0
    ELSE LET k == CHOOSE x \in keys : TRUE
         IN Len(p[k][1]) + Len(p[k][2]) + Len(p[k][3]) + SumLen(p, keys \ {k})
TotalPolys(p) == SumLen(p, DOMAIN p)

\* ------------------------------------------------- _parsemat helpers (l.145-154)
KwChars(kw) ==
    CASE kw = "Ka" -> <<"K", "a">>
      [] kw = "Kd" -> <<"K", "d">>
      [] kw = "Ks" -> <<"K", "s">>
      [] kw = "Ke" -> <<"K", "e">>
\* line[1]: the second character of the raw line, leading whitespace included
LineChar1(indent, kw) ==
    LET raw == [k \in 1..indent |-> " "] \o KwChars(kw) \o <<" ">>
    IN raw[2]
\* m = {'a':0, 'd':1, 's':2, 'e':3}
ColorSlots == {"a", "d", "s", "e"}
ColorSlot(ch) ==
    CASE ch = "a" -> 0 [] ch = "d" -> 1 [] ch = "s" -> 2 [] ch = "e" -> 3
\* the colour list after the two length tests
ExpandColor(vals) ==
    IF Len(vals) = 1 THEN vals \o vals \o vals \o <<0>>
    ELSE IF Len(vals) = 3 THEN Append(vals, 0)
    ELSE vals
\* mat = [(0,0,0,0)] * 4
FreshMat == <<DefaultColor, DefaultColor, DefaultColor, DefaultColor>>
\* self.mats[matname] = obj
Register(ms, name, ref) ==
    [n \in DOMAIN ms \cup {name} |-> IF n = name THEN ref ELSE ms[n]]

\* --------------------------------------------------- render helpers (l.161-196)
EmitPoint(pt) ==
    << <<"glNormal3dv", IF pt[2] = None THEN NoneArr ELSE narr[pt[2]]>>,
       <<"glVertex3dv", IF pt[1] = None THEN NoneArr ELSE varr[pt[1]]>> >>
RECURSIVE EmitPoints(_)
EmitPoints(points) ==
    IF points = <<>> THEN <<>>
    ELSE EmitPoint(Head(points)) \o EmitPoints(Tail(points))
\* all polygons of a bucket inside one glBegin/glEnd
RECURSIVE EmitAll(_)
EmitAll(bucket) ==
    IF bucket = <<>> THEN <<>>
    ELSE EmitPoints(Head(bucket)) \o EmitAll(Tail(bucket))
EmitBatch(mode, bucket) ==
    IF bucket = <<>> THEN <<>>
    ELSE << <<"glBegin", mode>> >> \o EmitAll(bucket) \o << <<"glEnd">> >>
\* one glBegin(GL_POLYGON)/glEnd per polygon
RECURSIVE EmitEach(_)
EmitEach(bucket) ==
    IF bucket = <<>> THEN <<>>
    ELSE << <<"glBegin", "GL_POLYGON">> >> \o EmitPoints(Head(bucket))
         \o << <<"glEnd">> >> \o EmitEach(Tail(bucket))
\* if texture: texture.activate()
EmitMaterial(key) == IF key # None THEN Activate(matobjs[key]) ELSE <<>>
\* the body of render's loop for one (texture, polygons) item
RenderKey(key) ==
    EmitMaterial(key)
    \o EmitBatch("GL_TRIANGLES", polys[key][1])
    \o EmitBatch("GL_QUADS", polys[key][2])
    \o EmitEach(polys[key][3])
RECURSIVE RenderKeys(_)
RenderKeys(order) ==
    IF order = <<>> THEN <<>>
    ELSE RenderKey(Head(order)) \o RenderKeys(Tail(order))
\* the orders in which iteritems() of a Python 2 dict may yield the keys:
\* the dict is a hash table, and the hash of None and of a _Material
\* instance is taken from its address
IterOrders(keys) ==
    {s \in [1..Cardinality(keys) -> keys] :
        \A i, j \in 1..Cardinality(keys) : i # j => s[i] # s[j]}

\* ------------------------------------------------------------------ inputs
\* the coordinates of the k-th vertex of a document: every vertex has its own
CoordOf(k) == <<k, k + 1, k + 2>>
\* v/t/n components: one of the two indices varies, the other is 1
Comps == {<<i, 1>> : i \in 0..MaxIdx} \cup {<<1, j>> : j \in 0..MaxIdx}
\* a face of n components; the first is c, the others are 1/t/1
FaceOf(n, c) == [k \in 1..n |-> IF k = 1 THEN c ELSE <<1, 1>>]
FaceInputs == {FaceOf(n, c) : n \in 0..MaxFaceLen, c \in Comps}
\* colour values, told apart by position
ColorOf(n) == [k \in 1..n |-> k]
ColorInputs == {ColorOf(n) : n \in 0..MaxColorLen}
\* the inputs of the whole-pipeline specification
NormalCoords == {<<1, 2, 3>>}
MainNames == {"m1"}
MainFaces == {FaceOf(n, <<MaxIdx, 1>>) : n \in 3..MaxFaceLen}
MainColors == {<<"Ka", ColorOf(1)>>, <<"Ks", ColorOf(3)>>}
\* the material file of the whole-pipeline specification: one material whose
\* ambient, diffuse and specular colours differ
MainMatFile ==
    << Line(0, "newmtl", "m1", <<>>, <<>>, 0),
       Line(0, "Ka", "", ColorOf(1), <<>>, 0),
       Line(0, "Ks", "", ColorOf(3), <<>>, 0) >>
\* first tokens that are no record keyword; "" is a blank line
OtherKeywords == {"", "#", "vt", "g"}
\* the values of random.uniform(0.7, 1.3), in tenths
Scalars == {7, 10, 13}
\* the coordinates of the k-th vertex of a base mesh, multiples of 10
BaseCoordOf(k) == <<10 * k, 10 * (k + 1), 10 * (k + 2)>>
\* triangles that differ in their first vertex
GroupFaces == {FaceOf(3, <<i, 1>>) : i \in 1..MaxVerts}

\* -------------------------------------------------------------------- Init
\* ------------------------------------------------------- src/ship.py values
\* Lengths are kept in hundredths of a world unit, angles in whole degrees.
Fix(n) == n * 100
\* a / b rounded towards zero
Trunc(a, b) == IF a >= 0 THEN a \div b ELSE -((-a) \div b)
\* 100 * sin(d degrees) for d = 0..90
SinTable ==
    <<   0,   2,   3,   5,   7,   9,  10,  12,  14,  16,  17,  19,  21,
        22,  24,  26,  28,  29,  31,  33,  34,  36,  37,  39,  41,  42,
        44,  45,  47,  48,  50,  52,  53,  54,  56,  57,  59,  60,  62,
        63,  64,  66,  67,  68,  69,  71,  72,  73,  74,  75,  77,  78,
        79,  80,  81,  82,  83,  84,  85,  86,  87,  87,  88,  89,  90,
        91,  91,  92,  93,  93,  94,  95,  95,  96,  96,  97,  97,  97,
        98,  98,  98,  99,  99,  99,  99, 100, 100, 100, 100, 100, 100 >>
SinDeg(d) ==
    LET m == d % 360
    IN IF m <= 90 THEN SinTable[m + 1]
       ELSE IF m <= 180 THEN SinTable[180 - m + 1]
       ELSE IF m <= 270 THEN -SinTable[m - 180 + 1]
       ELSE -SinTable[360 - m + 1]
CosDeg(d) == SinDeg(d + 90)
\* Ship.direction (l.68-90): zrot * xrot * (0,1,0), in hundredths
\*   = (-sin(theta) cos(phi), cos(theta) cos(phi), sin(phi))
Direction(th, ph) ==
    << Trunc(-(SinDeg(th) * CosDeg(ph)), 100),
       Trunc(CosDeg(th) * CosDeg(ph), 100),
       SinDeg(ph) >>
\* SHIP_ACCEL * self.direction()
Accel(th, ph) == [i \in 1..3 |-> Trunc(SHIP_ACCEL * Direction(th, ph)[i], 100)]
VecAdd(a, b) == [i \in 1..Len(a) |-> a[i] + b[i]]

\* bezier.Quadratic(p0, p1, p2, frames): the curve and its number of frames
Quadratic(p0, p1, p2, frames) == [p0 |-> p0, p1 |-> p1, p2 |-> p2, tmax |-> frames]
\* Quadratic.B(t): the point of the curve at frame t
BezierB(b, t) ==
    LET T == b.tmax
        u == IF t >= T THEN 0 ELSE T - t
        v == IF t >= T THEN T ELSE t
    IN [i \in 1..5 |->
          Trunc(u * u * b.p0[i] + 2 * u * v * b.p1[i] + v * v * b.p2[i], T * T)]

\* the control points of fly_in (l.182-199)
FlyInP0 == <<WIDTH * 60, Fix(HEIGHT) \div 2, distance * 110, 90, -90>>
FlyInP1 == <<WIDTH * 60, Fix(HEIGHT) \div 2, distance * 30, 90, -80>>
FlyInP2 == <<Fix(WIDTH) \div 2, Fix(HEIGHT) \div 2, 0, 90, 0>>
\* the control points of fly_out (l.215-234) for a ship at p, th, ph
FlyOutP0(p, th, ph) == p \o <<th, ph>>
FlyOutP2 == <<WIDTH * 60, Fix(HEIGHT) \div 2, distance * 110, 0, 90>>
FlyOutP1(p, th, ph) ==
    LET d == Direction(th, ph)
    IN << p[1] + d[1] * 200, p[2] + d[2] * 200, p[3] + d[3] * 200,
          Trunc(2 * th + 18 * FlyOutP2[4], 20),
          Trunc(2 * ph + 18 * FlyOutP2[5], 20) >>

\* the ship when Ship.__init__ returns: it ends with fly_in() (l.24-66)
InitShip ==
    /\ _state = 2
    /\ _t = 0
    /\ _bezier = Quadratic(FlyInP0, FlyInP1, FlyInP2, FlyInFrames)
    /\ _trusting = 0
    /\ _turning = 0
    /\ pos = <<FlyInP0[1], FlyInP0[2], FlyInP0[3]>>
    /\ speed = <<0, 0, 0>>
    /\ theta = FlyInP0[4]
    /\ phi = FlyInP0[5]
    /\ rot = 0
    /\ nflights = 0
    /\ nframes = 0

\* the model object at the start of _parse_model
InitModel ==
    /\ pc = "parse"
    /\ err = ""
    /\ line = NoLine
    /\ mline = NoLine
    /\ vertices = <<None>>
    /\ normals = <<None>>
    /\ varr = <<>>
    /\ narr = <<>>
    /\ mats = <<>>
    /\ matobjs = <<>>
    /\ polys = <<>>
    /\ currentmat = None
    /\ libfiles = 0
    /\ matname = ""
    /\ mat = NoMat
    /\ matlines = <<>>
    /\ nusemtl = 0
    /\ nfiles = 0
    /\ keyorder = <<>>
    /\ renderlist = 0
    /\ displaylist = <<>>
    /\ glcalls = <<>>
    /\ drawn = <<>>
    /\ context = TRUE
    /\ scalars = <<>>

Init == InitModel /\ InitShip

\* an exception propagates out of __init__
Raise(e) == pc' = "error" /\ err' = e

\* ------------------------------------------------- _parse_model (l.58-122)
\* "v x y z"
ReadVertex(xyz) ==
    /\ pc = "parse"
    /\ line' = Line(0, "v", "", xyz, <<>>, 0)
    /\ varr' = Append(varr, xyz)
    /\ vertices' = Append(vertices, Len(varr) + 1)
    /\ UNCHANGED <<pc, err, normals, narr, polys, currentmat, keyorder, nusemtl>>
    /\ UNCHANGED <<matvars, glvars, scalars, shipvars>>

\* "vn x y z"
ReadNormal(xyz) ==
    /\ pc = "parse"
    /\ line' = Line(0, "vn", "", xyz, <<>>, 0)
    /\ narr' = Append(narr, xyz)
    /\ normals' = Append(normals, Len(narr) + 1)
    /\ UNCHANGED <<pc, err, vertices, varr, polys, currentmat, keyorder, nusemtl>>
    /\ UNCHANGED <<matvars, glvars, scalars, shipvars>>

\* "mtllib file ...": _parsemat is entered for the first file
ReadMtllib(k) ==
    /\ pc = "parse"
    /\ line' = Line(0, "mtllib", "", <<>>, <<>>, k)
    /\ nfiles' = nfiles + k
    /\ libfiles' = k
    /\ IF k = 0
       THEN UNCHANGED <<pc, matname, mat, matlines, mline>>
       ELSE /\ pc' = "mat"
            /\ matname' = ""
            /\ mat' = NoMat
            /\ matlines' = <<>>
            /\ mline' = NoLine
    /\ UNCHANGED <<err, mats, matobjs, geomvars, glvars>>
    /\ UNCHANGED <<scalars, shipvars>>

\* (mutant) a missing name selects no material, as dict.get would
ReadUsemtl_Get(name) ==
    /\ pc = "parse"
    /\ line' = Line(0, "usemtl", name, <<>>, <<>>, 0)
    /\ nusemtl' = nusemtl + 1
    /\ currentmat' = IF name \in DOMAIN mats THEN mats[name] ELSE None
    /\ UNCHANGED <<pc, err, vertices, normals, varr, narr, polys, keyorder>>
    /\ UNCHANGED <<matvars, glvars, scalars, shipvars>>

\* "usemtl name"
ReadUsemtl(name) ==
    /\ pc = "parse"
    /\ line' = Line(0, "usemtl", name, <<>>, <<>>, 0)
    /\ nusemtl' = nusemtl + 1
    /\ IF name \in DOMAIN mats
       THEN currentmat' = mats[name] /\ UNCHANGED <<pc, err>>
       ELSE Raise("KeyError") /\ UNCHANGED currentmat
    /\ UNCHANGED <<vertices, normals, varr, narr, polys, keyorder>>
    /\ UNCHANGED <<matvars, glvars, scalars, shipvars>>

\* "f v/t/n ..."
ReadFace(comps) ==
    /\ pc = "parse"
    /\ line' = Line(0, "f", "", <<>>, comps, 0)
    /\ IF FaceOk(vertices, normals, comps)
       THEN LET points == ResolveFace(vertices, normals, comps)
                key == FaceKey(currentmat)
            IN /\ polys' = StorePoly(polys, key, ArityBucket(Len(points)), points)
               /\ keyorder' = IF key \in DOMAIN polys THEN keyorder
                              ELSE Append(keyorder, key)
               /\ UNCHANGED <<pc, err>>
       ELSE Raise("IndexError") /\ UNCHANGED <<polys, keyorder>>
    /\ UNCHANGED <<vertices, normals, varr, narr, currentmat, nusemtl>>
    /\ UNCHANGED <<matvars, glvars, scalars, shipvars>>

\* (mutant) a line that is not understood is an error
ReadOther_Raise(kw) ==
    /\ pc = "parse"
    /\ line' = Line(0, kw, "", <<>>, <<>>, 0)
    /\ IF kw = "" THEN UNCHANGED <<pc, err>> ELSE Raise("ValueError")
    /\ UNCHANGED <<geomvars, matvars, glvars, scalars, shipvars>>

\* a blank line (kw = "") is skipped at l.81-82; a line whose first token is
\* none of v, vn, mtllib, usemtl, f matches no branch of the if chain
ReadOther(kw) ==
    /\ pc = "parse"
    /\ line' = Line(0, kw, "", <<>>, <<>>, 0)
    /\ UNCHANGED <<pc, err, geomvars, matvars, glvars, scalars, shipvars>>

\* the file is exhausted: _parse_model returns
EndOfModel ==
    /\ pc = "parse"
    /\ pc' = "parsed"
    /\ UNCHANGED <<err, line, geomvars, matvars, glvars>>
    /\ UNCHANGED <<scalars, shipvars>>

\* --------------------------------------------------- _parsemat (l.124-159)
\* if matname: self.mats[matname] = _Material(*mat)
\* (ok, mats, matobjs) after the save, ok FALSE when an assertion fails
SaveMat ==
    IF matname = "" THEN [ok |-> TRUE, mats |-> mats, matobjs |-> matobjs]
    ELSE IF ~MaterialOk(mat) THEN [ok |-> FALSE, mats |-> mats, matobjs |-> matobjs]
    ELSE [ok |-> TRUE,
          mats |-> Register(mats, matname, Len(matobjs) + 1),
          matobjs |-> Append(matobjs, NewMaterial(mat))]

\* "newmtl name"
MatNewmtl(indent, name) ==
    /\ pc = "mat"
    /\ mline' = Line(indent, "newmtl", name, <<>>, <<>>, 0)
    /\ matlines' = Append(matlines, mline')
    /\ IF SaveMat.ok
       THEN /\ mats' = SaveMat.mats
            /\ matobjs' = SaveMat.matobjs
            /\ matname' = name
            /\ mat' = FreshMat
            /\ UNCHANGED <<pc, err>>
       ELSE /\ Raise("AssertionError")
            /\ UNCHANGED <<mats, matobjs, matname, mat>>
    /\ UNCHANGED <<line, libfiles, nfiles, geomvars, glvars>>
    /\ UNCHANGED <<scalars, shipvars>>

\* "Ka|Kd|Ks|Ke c ..."
MatColor(indent, kw, vals) ==
    /\ pc = "mat"
    /\ mline' = Line(indent, kw, "", vals, <<>>, 0)
    /\ matlines' = Append(matlines, mline')
    /\ IF LineChar1(indent, kw) \notin ColorSlots
       THEN Raise("KeyError") /\ UNCHANGED mat
       ELSE IF mat = NoMat
       THEN Raise("TypeError") /\ UNCHANGED mat
       ELSE /\ mat' = [mat EXCEPT ![ColorSlot(LineChar1(indent, kw)) + 1] =
                          ExpandColor(vals)]
            /\ UNCHANGED <<pc, err>>
    /\ UNCHANGED <<line, mats, matobjs, matname, libfiles, nfiles, geomvars, glvars>>
    /\ UNCHANGED <<scalars, shipvars>>

\* a blank line (kw = "") is skipped at l.132-133; a line whose first token
\* is neither newmtl nor a colour keyword matches no branch
MatOther(indent, kw) ==
    /\ pc = "mat"
    /\ mline' = Line(indent, kw, "", <<>>, <<>>, 0)
    /\ matlines' = Append(matlines, mline')
    /\ UNCHANGED <<pc, err, line, mats, matobjs, matname, mat, libfiles, nfiles>>
    /\ UNCHANGED <<geomvars, glvars, scalars, shipvars>>

\* (mutant) the material in progress at the end of the file is not saved
EndOfMat_NoSave ==
    /\ pc = "mat"
    /\ libfiles' = libfiles - 1
    /\ IF libfiles > 1
       THEN /\ matname' = ""
            /\ mat' = NoMat
            /\ matlines' = <<>>
            /\ mline' = NoLine
            /\ UNCHANGED pc
       ELSE /\ pc' = "parse"
            /\ UNCHANGED <<matname, mat, matlines, mline>>
    /\ UNCHANGED <<err, mats, matobjs, line, nfiles, geomvars, glvars>>
    /\ UNCHANGED <<scalars, shipvars>>

\* the material file is exhausted: the last material is saved, the file is
\* closed, and mtllib's loop goes on to its next file or _parse_model reads on
EndOfMat ==
    /\ pc = "mat"
    /\ IF SaveMat.ok
       THEN /\ mats' = SaveMat.mats
            /\ matobjs' = SaveMat.matobjs
            /\ libfiles' = libfiles - 1
            /\ IF libfiles > 1
               THEN /\ matname' = ""
                    /\ mat' = NoMat
                    /\ matlines' = <<>>
                    /\ mline' = NoLine
                    /\ UNCHANGED pc
               ELSE /\ pc' = "parse"
                    /\ UNCHANGED <<matname, mat, matlines, mline>>
            /\ UNCHANGED err
       ELSE /\ Raise("AssertionError")
            /\ UNCHANGED <<mats, matobjs, libfiles, matname, mat, matlines, mline>>
    /\ UNCHANGED <<line, nfiles, geomvars, glvars>>
    /\ UNCHANGED <<scalars, shipvars>>

\* ------------------------------------- Model._create_displaylist (l.10-19)
\* (mutant) the handle is not tested: the list is recorded under handle 0
CreateDisplayList_NoCheck(h) ==
    /\ pc \in {"parsed", "perturbed"}
    /\ renderlist' = h
    /\ \E order \in IterOrders(DOMAIN polys) : displaylist' = RenderKeys(order)
    /\ glcalls' = glcalls \o << <<"glGenLists", 1>>,
                                <<"glNewList", h, "GL_COMPILE">>,
                                <<"glEndList">> >>
    /\ pc' = "built"
    /\ UNCHANGED err
    /\ UNCHANGED <<line, geomvars, matvars, drawn, context, scalars, shipvars>>

\* glGenLists(1) returns h; 0 is no list
CreateDisplayList(h) ==
    /\ pc \in {"parsed", "perturbed"}
    /\ renderlist' = h
    /\ IF h = 0
       THEN /\ Raise("RuntimeError")
            /\ glcalls' = Append(glcalls, <<"glGenLists", 1>>)
            /\ UNCHANGED displaylist
       ELSE /\ \E order \in IterOrders(DOMAIN polys) :
                   displaylist' = RenderKeys(order)
            /\ glcalls' = glcalls \o << <<"glGenLists", 1>>,
                                        <<"glNewList", h, "GL_COMPILE">>,
                                        <<"glEndList">> >>
            /\ pc' = "built"
            /\ UNCHANGED err
    /\ UNCHANGED <<line, geomvars, matvars, drawn, context, scalars, shipvars>>

\* ------------------------------------------------------ Model.draw (l.28-29)
\* (mutant) draw builds the display list again, under a new handle, before
\* it calls it
Draw_Rebuild(raised) ==
    /\ pc = "built"
    /\ context
    /\ raised = FALSE
    /\ renderlist' = renderlist + 1
    /\ glcalls' = glcalls \o << <<"glGenLists", 1>>,
                                <<"glNewList", renderlist', "GL_COMPILE">>,
                                <<"glEndList">>,
                                <<"glCallList", renderlist'>> >>
    /\ \E order \in IterOrders(DOMAIN polys) :
          /\ displaylist' = RenderKeys(order)
          /\ drawn' = Append(drawn, displaylist')
    /\ UNCHANGED <<pc, err, context>>
    /\ UNCHANGED <<line, geomvars, matvars, scalars, shipvars>>

\* glCallList(self.renderlist): no test of the model or of the context.
\* With a current context the backend executes the list.  Without one the
\* call is outside what the GL binding defines: it raises (raised) or it
\* does nothing at all.
Draw(raised) ==
    /\ pc = "built"
    /\ glcalls' = Append(glcalls, <<"glCallList", renderlist>>)
    /\ IF context
       THEN /\ raised = FALSE
            /\ drawn' = Append(drawn, displaylist)
            /\ UNCHANGED <<pc, err>>
       ELSE /\ UNCHANGED drawn
            /\ IF raised THEN Raise("GLError") ELSE UNCHANGED <<pc, err>>
    /\ UNCHANGED <<renderlist, displaylist, context>>
    /\ UNCHANGED <<line, geomvars, matvars, scalars, shipvars>>

\* the window is closed, or another context is made current: not an
\* operation of model.py.  The constructor runs with a current context.
ContextLost ==
    /\ pc = "built"
    /\ context
    /\ context' = FALSE
    /\ UNCHANGED <<pc, err, line, mline, geomvars, matvars, scalars, shipvars>>
    /\ UNCHANGED <<renderlist, displaylist, glcalls, drawn>>

\* ------------------------------------------- AsteroidModel.__init__ (l.199-208)
\* (mutant) the offset of the range is added to the factor
ScaleBy_Offset(xyz, s) == [i \in 1..Len(xyz) |-> (xyz[i] * (s + 7)) \div 10]
\* vertex *= s on a numpy array: every coordinate times s (s in tenths)
ScaleBy(xyz, s) == [i \in 1..Len(xyz) |-> (xyz[i] * s) \div 10]

\* (mutant) vertex = vertex * s: the product is bound to the loop variable
\* and the arrays of the table stay as they are
Perturb_Rebind(ss) ==
    /\ pc = "parsed"
    /\ scalars' = ss
    /\ pc' = "perturbed"
    /\ UNCHANGED <<err, line, geomvars, matvars, glvars, shipvars>>

\* for vertex in self.vertices[1:]: vertex *= random.uniform(0.7, 1.3)
\* ss[k] is the value drawn for the k-th entry; the arrays are scaled in
\* place, so every polygon point that holds the array sees the product
Perturb(ss) ==
    /\ pc = "parsed"
    /\ scalars' = ss
    /\ varr' = [r \in DOMAIN varr |->
                  IF \E k \in 1..(Len(vertices) - 1) : vertices[k + 1] = r
                  THEN ScaleBy(varr[r],
                               ss[CHOOSE k \in 1..(Len(vertices) - 1) : vertices[k + 1] = r])
                  ELSE varr[r]]
    /\ pc' = "perturbed"
    /\ UNCHANGED <<err, line, vertices, normals, narr, polys, currentmat,
                   keyorder, nusemtl, matvars, glvars, shipvars>>

\* ------------------------------------------------------------- src/ship.py
\* Ship._update_normal (l.109-122): one coordinate after the wrap
Wrap(x, size) ==
    IF x > Fix(size) + Fix(WRAPDIST) THEN -Fix(WRAPDIST)
    ELSE IF x < -Fix(WRAPDIST) THEN Fix(size) + Fix(WRAPDIST)
    ELSE x
\* (mutant) the coordinate comes back in at its own edge
UpdateNormal_SameEdge(p, v) ==
    LET q == VecAdd(p, v)
    IN << IF q[1] > Fix(WIDTH) + Fix(WRAPDIST) THEN q[1] - Fix(WRAPDIST)
          ELSE IF q[1] < -Fix(WRAPDIST) THEN q[1] + Fix(WRAPDIST) ELSE q[1],
          Wrap(q[2], HEIGHT), q[3] >>
\* self.pos += self.speed, then the wrap of x and of y
UpdateNormal(p, v) ==
    LET q == VecAdd(p, v)
    IN <<Wrap(q[1], WIDTH), Wrap(q[2], HEIGHT), q[3]>>

\* (mutant) the flight ends one frame after tmax
FlightOver_Late(t, b) == t > b.tmax
\* if self._t >= self._bezier.tmax
FlightOver(t, b) == t >= b.tmax

\* Ship.update (l.92-107); self.bullets.update() acts on the Bullets object
\* only, whose class is not among the sources
Update ==
    LET normal == _state \in {0, 1}
        current == BezierB(_bezier, _t + 1)
        pos1 == IF normal THEN UpdateNormal(pos, speed)
                ELSE <<current[1], current[2], current[3]>>
        theta1 == IF normal THEN theta ELSE current[4]
        phi1 == IF normal THEN phi ELSE current[5]
        rot1 == IF normal THEN rot ELSE rot + 2
    IN /\ pos' = pos1
       /\ phi' = phi1
       /\ _t' = IF normal THEN _t ELSE _t + 1
       /\ _state' = IF ~normal /\ FlightOver(_t + 1, _bezier) THEN 1 ELSE _state
       /\ speed' = IF _trusting # 0 THEN VecAdd(speed, Accel(theta1, phi1)) ELSE speed
       /\ theta' = IF _turning # 0 THEN theta1 + SHIP_ROTSPEED * _turning ELSE theta1
       /\ rot' = IF _turning # 0 THEN theta' ELSE rot1
       /\ nframes' = IF normal THEN nframes + 1 ELSE nframes
       /\ UNCHANGED <<_bezier, _trusting, _turning, nflights, modelvars>>

\* (mutant) the flag is set in every state
Thrust_Always(on) ==
    /\ _trusting' = on
    /\ UNCHANGED <<_state, _t, _bezier, _turning, pos, speed, theta, phi, rot,
                   nflights, nframes, modelvars>>

\* Ship.thrust (l.134-138)
Thrust(on) ==
    /\ _trusting' = IF _state \notin {0, 1} THEN _trusting ELSE on
    /\ UNCHANGED <<_state, _t, _bezier, _turning, pos, speed, theta, phi, rot,
                   nflights, nframes, modelvars>>

\* Ship.turn (l.140-144)
Turn(dir) ==
    /\ _turning' = IF _state \notin {0, 1} THEN _turning ELSE dir
    /\ UNCHANGED <<_state, _t, _bezier, _trusting, pos, speed, theta, phi, rot,
                   nflights, nframes, modelvars>>

\* Ship.fly_in (l.173-209)
FlyIn ==
    /\ _state' = 2
    /\ pos' = <<FlyInP0[1], FlyInP0[2], FlyInP0[3]>>
    /\ theta' = FlyInP0[4]
    /\ phi' = FlyInP0[5]
    /\ _t' = 0
    /\ _bezier' = Quadratic(FlyInP0, FlyInP1, FlyInP2, FlyInFrames)
    /\ nflights' = nflights + 1
    /\ UNCHANGED <<_trusting, _turning, speed, rot, nframes, modelvars>>

\* Ship.fly_out (l.211-238)
FlyOut ==
    /\ _state' = 3
    /\ _t' = 0
    /\ _bezier' = Quadratic(FlyOutP0(pos, theta, phi), FlyOutP1(pos, theta, phi),
                            FlyOutP2, FlyOutFrames)
    /\ nflights' = nflights + 1
    /\ UNCHANGED <<_trusting, _turning, pos, speed, theta, phi, rot, nframes,
                   modelvars>>

\* ---------------------------------------------------------- specification
\* the records a specification may still read, by kind
MoreVerts == Len(vertices) - 1 < MaxVerts
MoreNormals == Len(normals) - 1 < MaxNormals
MoreFaces(n) == TotalPolys(polys) < n
MoreUsemtl(n) == nusemtl < n
MoreMatFiles(n) == nfiles < n
MoreMatLines(n) == Len(matlines) < n

\* the record of MainMatFile that follows the lines read so far
MainMatLine ==
    IF Len(matlines) < Len(MainMatFile) THEN MainMatFile[Len(matlines) + 1] ELSE NoLine

\* The whole pipeline, parse to display list: documents of up to MaxFaces
\* faces of 3 and more points, one usemtl, and one material file that is
\* MainMatFile or a prefix of it.
Next ==
    \/ MoreVerts /\ ReadVertex(CoordOf(Len(vertices)))
    \/ MoreNormals /\ \E xyz \in NormalCoords : ReadNormal(xyz)
    \/ MoreMatFiles(OneMatFile) /\ ReadMtllib(1)
    \/ MoreUsemtl(OneUsemtl) /\ \E name \in MainNames : ReadUsemtl(name)
    \/ MoreFaces(MaxFaces) /\ \E comps \in MainFaces : ReadFace(comps)
    \/ EndOfModel
    \/ MainMatLine.kw = "newmtl" /\ MatNewmtl(0, MainMatLine.name)
    \/ MainMatLine.kw \in ColorKeywords /\ MatColor(0, MainMatLine.kw, MainMatLine.nums)
    \/ EndOfMat
    \/ \E h \in 0..1 : CreateDisplayList(h)

Spec == Init /\ [][Next]_vars

\* Grouping by material: documents of up to FewFaces triangles, one material
\* file of newmtl records, one usemtl.
NextGroup ==
    \/ MoreVerts /\ ReadVertex(CoordOf(Len(vertices)))
    \/ MoreNormals /\ \E xyz \in NormalCoords : ReadNormal(xyz)
    \/ MoreMatFiles(OneMatFile) /\ \E k \in 0..1 : ReadMtllib(k)
    \/ MoreUsemtl(OneUsemtl) /\ \E name \in Names : ReadUsemtl(name)
    \/ MoreFaces(FewFaces) /\ \E comps \in GroupFaces : ReadFace(comps)
    \/ EndOfModel
    \/ MoreMatLines(ShortMatLines) /\ \E name \in Names : MatNewmtl(0, name)
    \/ EndOfMat

SpecGroup == Init /\ [][NextGroup]_vars

\* Material selection: up to MaxUsemtl usemtl records around one face and one
\* material file of newmtl records; then compile.
NextUse ==
    \/ MoreVerts /\ ReadVertex(CoordOf(Len(vertices)))
    \/ MoreNormals /\ \E xyz \in NormalCoords : ReadNormal(xyz)
    \/ MoreMatFiles(OneMatFile) /\ ReadMtllib(1)
    \/ MoreUsemtl(MaxUsemtl) /\ \E name \in Names : ReadUsemtl(name)
    \/ MoreFaces(OneFace) /\ ReadFace(FaceOf(3, <<1, 1>>))
    \/ EndOfModel
    \/ MoreMatLines(ShortMatLines) /\ \E name \in Names : MatNewmtl(0, name)
    \/ EndOfMat
    \/ \E h \in 0..1 : CreateDisplayList(h)

SpecUse == Init /\ [][NextUse]_vars

\* Material libraries: up to MaxMatFiles material files of newmtl, Ka and Ks
\* records read around one usemtl and one face.
NextLib ==
    \/ MoreVerts /\ ReadVertex(CoordOf(Len(vertices)))
    \/ MoreNormals /\ \E xyz \in NormalCoords : ReadNormal(xyz)
    \/ MoreMatFiles(MaxMatFiles) /\ ReadMtllib(1)
    \/ MoreUsemtl(OneUsemtl) /\ \E name \in MainNames : ReadUsemtl(name)
    \/ MoreFaces(OneFace) /\ ReadFace(FaceOf(3, <<1, 1>>))
    \/ EndOfModel
    \/ MoreMatLines(ShortMatLines) /\ \E name \in MainNames : MatNewmtl(0, name)
    \/ MoreMatLines(ShortMatLines) /\ \E c \in MainColors : MatColor(0, c[1], c[2])
    \/ EndOfMat

SpecLib == Init /\ [][NextLib]_vars

\* The geometry parser on every kind of face record; one material file of
\* newmtl records.
NextGeom ==
    \/ MoreVerts /\ ReadVertex(CoordOf(Len(vertices)))
    \/ MoreNormals /\ \E xyz \in NormalCoords : ReadNormal(xyz)
    \/ MoreMatFiles(OneMatFile) /\ \E k \in 0..1 : ReadMtllib(k)
    \/ MoreUsemtl(MaxUsemtl) /\ \E name \in Names : ReadUsemtl(name)
    \/ MoreFaces(FewFaces) /\ \E comps \in FaceInputs : ReadFace(comps)
    \/ EndOfModel
    \/ MoreMatLines(ShortMatLines) /\ \E name \in Names : MatNewmtl(0, name)
    \/ EndOfMat

SpecGeom == Init /\ [][NextGeom]_vars

\* The material parser on every kind of colour record; the model document
\* holds one mtllib record naming one file.
NextMat ==
    \/ MoreMatFiles(OneMatFile) /\ ReadMtllib(1)
    \/ MoreMatLines(MaxMatLines) /\ \E i \in 0..MaxIndent, name \in Names : MatNewmtl(i, name)
    \/ MoreMatLines(MaxMatLines) /\
          \E i \in 0..MaxIndent, kw \in ColorKeywords, vals \in ColorInputs :
             MatColor(i, kw, vals)
    \/ EndOfMat
    \/ EndOfModel

SpecMat == Init /\ [][NextMat]_vars

\* the glCallList calls made so far
NumDraws == Cardinality({i \in DOMAIN glcalls : glcalls[i][1] = "glCallList"})
MoreDraws == NumDraws < MaxDraws

\* Compile and draw: documents of up to OneFace faces, one usemtl and the
\* material file MainMatFile; then up to MaxDraws draw calls, before and
\* after the context is lost.
NextDraw ==
    \/ MoreVerts /\ ReadVertex(CoordOf(Len(vertices)))
    \/ MoreNormals /\ \E xyz \in NormalCoords : ReadNormal(xyz)
    \/ MoreMatFiles(OneMatFile) /\ ReadMtllib(1)
    \/ MoreUsemtl(OneUsemtl) /\ \E name \in MainNames : ReadUsemtl(name)
    \/ MoreFaces(OneFace) /\ \E comps \in MainFaces : ReadFace(comps)
    \/ EndOfModel
    \/ MainMatLine.kw = "newmtl" /\ MatNewmtl(0, MainMatLine.name)
    \/ MainMatLine.kw \in ColorKeywords /\ MatColor(0, MainMatLine.kw, MainMatLine.nums)
    \/ EndOfMat
    \/ \E h \in 0..1 : CreateDisplayList(h)
    \/ MoreDraws /\ \E raised \in BOOLEAN : Draw(raised)
    \/ ContextLost

SpecDraw == Init /\ [][NextDraw]_vars

\* Procedural variants: a base document of up to MaxVerts vertices and
\* FewFaces triangles that share vertices, scaled by AsteroidModel.__init__
\* with every choice of scalars, then compiled.
NextVariant ==
    \/ MoreVerts /\ ReadVertex(BaseCoordOf(Len(vertices)))
    \/ MoreNormals /\ \E xyz \in NormalCoords : ReadNormal(xyz)
    \/ MoreFaces(FewFaces) /\ \E comps \in GroupFaces : ReadFace(comps)
    \/ EndOfModel
    \/ \E ss \in [1..(Len(vertices) - 1) -> Scalars] : Perturb(ss)
    \/ \E h \in 0..1 : CreateDisplayList(h)

SpecVariant == Init /\ [][NextVariant]_vars

\* the records among the lines read from the open material file
NumMatRecords ==
    Cardinality({i \in DOMAIN matlines : matlines[i].kw \in {"newmtl"} \cup ColorKeywords})
\* the record of MainMatFile that follows them
NextMatRecord ==
    IF NumMatRecords < Len(MainMatFile) THEN MainMatFile[NumMatRecords + 1] ELSE NoLine
\* the open material file has held records only
NoIgnoredYet == NumMatRecords = Len(matlines)

\* Ignored lines: blank lines, comments and unknown keywords anywhere in a
\* document of one face and one usemtl, and one of them anywhere in its
\* material file, which is otherwise MainMatFile or a prefix of it.
NextIgnore ==
    \/ MoreVerts /\ ReadVertex(CoordOf(Len(vertices)))
    \/ MoreNormals /\ \E xyz \in NormalCoords : ReadNormal(xyz)
    \/ MoreMatFiles(OneMatFile) /\ ReadMtllib(1)
    \/ MoreUsemtl(OneUsemtl) /\ \E name \in MainNames : ReadUsemtl(name)
    \/ MoreFaces(OneFace) /\ ReadFace(FaceOf(3, <<1, 1>>))
    \/ \E kw \in OtherKeywords : ReadOther(kw)
    \/ EndOfModel
    \/ NextMatRecord.kw = "newmtl" /\ MatNewmtl(0, NextMatRecord.name)
    \/ NextMatRecord.kw \in ColorKeywords /\
          MatColor(0, NextMatRecord.kw, NextMatRecord.nums)
    \/ NoIgnoredYet /\ \E i \in 0..MaxIndent, kw \in OtherKeywords : MatOther(i, kw)
    \/ EndOfMat

SpecIgnore == Init /\ [][NextIgnore]_vars

\* the calls a specification of the ship may still make
MoreFlights == /\ nflights < MaxFlights
               /\ (_state \in {0, 1} \/ _t % FlyStride = 0)
MoreFrames == _state \in {2, 3} \/ nframes < MaxFrames

\* Flights: fly_in and fly_out called in normal control and during a flight,
\* update called every frame.
NextFlight ==
    \/ MoreFrames /\ Update
    \/ MoreFlights /\ FlyIn
    \/ MoreFlights /\ FlyOut

\* the game loop calls update() once per frame for as long as it runs
SpecFlight == Init /\ [][NextFlight]_vars /\ WF_vars(MoreFrames /\ Update)

\* no frame of normal control was flown yet
NoFrameYet == nframes = 0

\* Controls: thrust and turn called with every argument at any time, in
\* flights started before the first frame of normal control and in the
\* frames after them.
NextControl ==
    \/ MoreFrames /\ Update
    \/ \E on \in {0, 1} : Thrust(on)
    \/ \E dir \in {-1, 0, 1} : Turn(dir)
    \/ MoreFlights /\ NoFrameYet /\ FlyIn
    \/ MoreFlights /\ NoFrameYet /\ FlyOut

SpecControl == Init /\ [][NextControl]_vars

\* positions at and between the edges of the wrap range, and speeds from
\* none to more than the whole range, for one coordinate of a field of size
WrapCoords(size) ==
    {-Fix(WRAPDIST), -Fix(WRAPDIST) + 1, 0, Fix(size), Fix(size) + Fix(WRAPDIST) - 1,
     Fix(size) + Fix(WRAPDIST)}
WrapSpeeds(size) ==
    {0, 1, -1, 2, -2, Fix(size) + 2 * Fix(WRAPDIST) + 1, -(Fix(size) + 2 * Fix(WRAPDIST) + 1)}
\* a ship in normal control after its fly-in, at any of these positions and
\* speeds
InitWrap ==
    /\ InitModel
    /\ _state = 1
    /\ _t = FlyInFrames
    /\ _bezier = Quadratic(FlyInP0, FlyInP1, FlyInP2, FlyInFrames)
    /\ _trusting \in {0, 1}
    /\ _turning = 0
    /\ \E x \in WrapCoords(WIDTH), y \in WrapCoords(HEIGHT) : pos = <<x, y, 0>>
    /\ \E vx \in WrapSpeeds(WIDTH), vy \in WrapSpeeds(HEIGHT) : speed = <<vx, vy, 0>>
    /\ theta = FlyInP2[4]
    /\ phi = FlyInP2[5]
    /\ rot = 2 * FlyInFrames
    /\ nflights = 0
    /\ nframes = 0

\* Wrap-around: up to MaxFrames frames of normal control from these states.
NextWrap == MoreFrames /\ Update

SpecWrap == InitWrap /\ [][NextWrap]_vars

\* ------------------------------------------------------------------ claims
\* what the steps of a run did, read off the state before and after
Keys(p) == DOMAIN p
IsPrefix(s, t) == Len(s) <= Len(t) /\ \A k \in 1..Len(s) : t[k] = s[k]
FaceStored == TotalPolys(polys') = TotalPolys(polys) + 1
UsemtlRead == nusemtl' = nusemtl + 1
\* every polygon stays in its bucket, at its place
BucketsOnlyGrow ==
    /\ Keys(polys) \subseteq Keys(polys')
    /\ \A k \in Keys(polys) : \A i \in 1..3 : IsPrefix(polys[k][i], polys'[k][i])
\* exactly one bucket of key k got one polygon, at its end
GrewAt(k) ==
    /\ k \in Keys(polys')
    /\ \E i \in 1..3 :
          /\ Len(polys'[k][i]) = Len(Buckets(polys, k)[i]) + 1
          /\ \A j \in (1..3) \ {i} : polys'[k][j] = Buckets(polys, k)[j]
    /\ \A o \in Keys(polys') \ {k} : o \in Keys(polys) /\ polys'[o] = polys[o]

\* C1: faces read before the first usemtl are stored under the "no material"
\* key; a usemtl X selects the material registered as X and moves no stored
\* face; every later face is appended to a bucket of the selected material,
\* so each bucket lists its polygons in the order of the document.
C1_FacesFollowUsemtl ==
    /\ [](nusemtl = 0 => Keys(polys) \subseteq {None})
    /\ [][ /\ BucketsOnlyGrow
           /\ (FaceStored => GrewAt(currentmat) /\ currentmat' = currentmat)
           /\ (UsemtlRead /\ pc' # "error" =>
                 /\ line'.name \in DOMAIN mats
                 /\ currentmat' = mats[line'.name]
                 /\ polys' = polys)
           /\ (~UsemtlRead => currentmat' = currentmat) ]_vars

\* a face under "no material" and a face under a selected material
C1_Witness ==
    /\ None \in Keys(polys)
    /\ \E k \in Keys(polys) : k # None /\ k = currentmat

\* the point list the claims expect of a face record: the k-th point pairs
\* the entries of the vertex and normal tables its k-th component names
ClaimPoints(comps) ==
    [k \in 1..Len(comps) |-> <<vertices[comps[k][1] + 1], normals[comps[k][2] + 1]>>]
\* the bucket the claims give a polygon of n points: 1 triangles, 2 quads,
\* 3 general polygons
ClaimBucket(n) == CASE n = 3 -> 1 [] n = 4 -> 2 [] n >= 5 -> 3
FaceRead == pc = "parse" /\ line'.kw = "f" /\ (FaceStored \/ pc' = "error" \/ line' # line)

\* C2: a face record of n >= 3 resolved points is appended, point order kept,
\* to exactly one bucket of the current material: triangles for n = 3, quads
\* for n = 4, general polygons for n >= 5; nothing else in the mesh changes.
C2_FaceGoesToArityBucket ==
    [][ FaceRead /\ pc' # "error" /\ Len(line'.comps) >= 3 =>
          LET pts == ClaimPoints(line'.comps)
              b == ClaimBucket(Len(pts))
          IN /\ currentmat \in Keys(polys')
             /\ polys'[currentmat][b] = Append(Buckets(polys, currentmat)[b], pts)
             /\ \A j \in (1..3) \ {b} :
                   polys'[currentmat][j] = Buckets(polys, currentmat)[j]
             /\ \A o \in Keys(polys') \ {currentmat} :
                   o \in Keys(polys) /\ polys'[o] = polys[o] ]_vars

\* one 3-point, one 4-point and one 5-point face under one material: (1,1,1)
C2_Witness ==
    \E k \in Keys(polys) :
        /\ k # None
        /\ Len(polys[k][1]) = 1 /\ Len(polys[k][1][1]) = 3
        /\ Len(polys[k][2]) = 1 /\ Len(polys[k][2][1]) = 4
        /\ Len(polys[k][3]) = 1 /\ Len(polys[k][3][1]) = 5

\* the indices of a component name entries that v and vn records defined
Defined(comp) ==
    /\ comp[1] \in 1..(Len(vertices) - 1)
    /\ comp[2] \in 1..(Len(normals) - 1)
AllDefined(comps) == \A k \in 1..Len(comps) : Defined(comps[k])
StoredPolys == {<<k, i, j>> \in Keys(polys) \X (1..3) \X (1..MaxFaces) :
                   j <= Len(polys[k][i])}
PointsDefined(poly) == \A n \in 1..Len(poly) : poly[n][1] # None /\ poly[n][2] # None

\* C3 (as claimed): a face record that resolves to 1 or 2 points ends the
\* parse in an error, and no stored polygon has fewer than 3 points.
C3_DegenerateFaceFails ==
    /\ (line.kw = "f" /\ Len(line.comps) \in 1..2 /\ AllDefined(line.comps)
          => pc = "error")
    /\ \A s \in StoredPolys :
          PointsDefined(polys[s[1]][s[2]][s[3]]) => Len(polys[s[1]][s[2]][s[3]]) >= 3

\* C4 (as claimed): a face component with index 0, or with an index above
\* the number of v (vn) records read so far, ends the parse in an error, and
\* every stored point pairs two entries defined by v and vn records.
C4_BadIndexFails ==
    /\ (line.kw = "f" /\ Len(line.comps) >= 3 /\ ~AllDefined(line.comps)
          => pc = "error")
    /\ \A s \in StoredPolys :
          Len(polys[s[1]][s[2]][s[3]]) >= 3 => PointsDefined(polys[s[1]][s[2]][s[3]])

\* the part of C4 the code keeps: an index above the table's size raises
C4_IndexAboveCountRaises ==
    line.kw = "f" /\ (\E k \in 1..Len(line.comps) :
                         \/ line.comps[k][1] > Len(vertices) - 1
                         \/ line.comps[k][2] > Len(normals) - 1)
      => pc = "error" /\ err = "IndexError"

\* C5: a usemtl record whose name is not registered raises (KeyError, the
\* code's MaterialNotFoundError); the run ends there: no later step, no
\* display list; and the failing record leaves the current material and the
\* mesh as they were.
C5_UnknownMaterialAborts ==
    /\ [](line.kw = "usemtl" /\ line.name \notin DOMAIN mats
            => pc = "error" /\ err = "KeyError" /\ renderlist = 0 /\ displaylist = <<>>)
    /\ [][ /\ pc # "error"
           /\ (UsemtlRead /\ line'.name \notin DOMAIN mats =>
                 /\ pc' = "error"
                 /\ currentmat' = currentmat
                 /\ polys' = polys /\ mats' = mats) ]_vars

\* a usemtl of an unknown name that failed while a material was selected
\* and a face was stored under it
C5_Witness ==
    /\ pc = "error" /\ err = "KeyError"
    /\ line.kw = "usemtl" /\ line.name \notin DOMAIN mats
    /\ currentmat # None /\ currentmat \in Keys(polys)

\* the colour the claims give a record's values
ClaimColor(vals) ==
    CASE Len(vals) = 1 -> <<vals[1], vals[1], vals[1], 0>>
      [] Len(vals) = 3 -> <<vals[1], vals[2], vals[3], 0>>
      [] OTHER -> vals
\* the component a keyword names: 1 ambient, 2 diffuse, 3 specular, 4 emission
ClaimSlot(kw) == CASE kw = "Ka" -> 1 [] kw = "Kd" -> 2 [] kw = "Ks" -> 3 [] kw = "Ke" -> 4
IsColor(l) == l.kw \in ColorKeywords
\* a step of _parsemat that read a colour record inside a material block
ColorRead ==
    /\ pc = "mat" /\ matname # ""
    /\ Len(matlines') = Len(matlines) + 1
    /\ IsColor(mline')
ColorSet ==
    /\ pc' # "error"
    /\ mat'[ClaimSlot(mline'.kw)] = ClaimColor(mline'.nums)
    /\ \A j \in (1..4) \ {ClaimSlot(mline'.kw)} : mat'[j] = mat[j]

\* C6 (as claimed): every Ka/Kd/Ks/Ke record of 1, 3 or 4 values inside a
\* material block sets the component it names to the expanded colour and
\* leaves the other three components unchanged.
C6_ColorRecordSetsComponent ==
    [][ ColorRead /\ Len(mline'.nums) \in {1, 3, 4} => ColorSet ]_vars

\* the part of C6 the code keeps: records that start in the first column
C6_UnindentedColorRecordSetsComponent ==
    [][ ColorRead /\ Len(mline'.nums) \in {1, 3, 4} /\ mline'.indent = 0
          => ColorSet ]_vars

\* the material file was read to its end and _parsemat returned
MatFileDone == pc \in {"parse", "parsed"} /\ line.kw = "mtllib" /\ line.files > 0
BadColor(l) == IsColor(l) /\ Len(l.nums) \notin {1, 3, 4}

\* C7 (as claimed): a material file holding a Ka/Kd/Ks/Ke record of 0, 2 or
\* 5 and more values is not parsed to its end, and every registered material
\* has four components of length 4.
C7_BadColorCountFails ==
    /\ (MatFileDone => \A k \in 1..Len(matlines) : ~BadColor(matlines[k]))
    /\ \A r \in 1..Len(matobjs) :
          /\ Len(matobjs[r].ambient) = 4 /\ Len(matobjs[r].diffuse) = 4
          /\ Len(matobjs[r].specular) = 4 /\ Len(matobjs[r].emission) = 4

\* the part of C7 the code keeps: the assertions of _Material.__init__
C7_RegisteredColorsHaveLength4 ==
    \A r \in 1..Len(matobjs) :
        /\ Len(matobjs[r].ambient) = 4 /\ Len(matobjs[r].diffuse) = 4
        /\ Len(matobjs[r].specular) = 4 /\ Len(matobjs[r].emission) = 4

\* what the claims expect of the registry after a material file, from the
\* file's lines alone
Declared(lines) == {lines[k].name : k \in {j \in 1..Len(lines) : lines[j].kw = "newmtl"}}
MaxOf(S) == CHOOSE x \in S : \A y \in S : y <= x
MinOf(S) == CHOOSE x \in S : \A y \in S : x <= y
LastDecl(lines, name) ==
    MaxOf({k \in 1..Len(lines) : lines[k].kw = "newmtl" /\ lines[k].name = name})
BlockEnd(lines, d) ==
    MinOf({k \in (d + 1)..Len(lines) : lines[k].kw = "newmtl"} \cup {Len(lines) + 1})
ClaimComponent(lines, name, kw) ==
    LET d == LastDecl(lines, name)
        recs == {k \in (d + 1)..(BlockEnd(lines, d) - 1) : lines[k].kw = kw}
    IN IF recs = {} THEN <<0, 0, 0, 0>> ELSE ClaimColor(lines[MaxOf(recs)].nums)
ClaimMaterial(lines, name) ==
    [ambient |-> ClaimComponent(lines, name, "Ka"),
     diffuse |-> ClaimComponent(lines, name, "Kd"),
     specular |-> ClaimComponent(lines, name, "Ks"),
     emission |-> ClaimComponent(lines, name, "Ke")]

\* C8: once a material file is read to its end, every name a newmtl record
\* introduced is registered, the last one too, with the colours of the last
\* block that declared it and (0,0,0,0) for what that block left unset; no
\* registered name is dropped, no existing material object is changed, and
\* reading a material file leaves the polygon groups and their keys alone.
C8_RegistryAfterMaterialFile ==
    /\ [](MatFileDone =>
            \A name \in Declared(matlines) :
                /\ name \in DOMAIN mats
                /\ matobjs[mats[name]] = ClaimMaterial(matlines, name))
    /\ [][ /\ DOMAIN mats \subseteq DOMAIN mats'
           /\ IsPrefix(matobjs, matobjs')
           /\ (pc = "mat" => polys' = polys /\ currentmat' = currentmat) ]_vars

\* a name was redefined after faces were stored under its earlier material
C8_Witness ==
    /\ MatFileDone
    /\ \E k \in Keys(polys) :
          /\ k # None
          /\ \E name \in Declared(matlines) :
                /\ mats[name] # k
                /\ matobjs[mats[name]] # matobjs[k]

\* the emission the claims expect for one material key, from the mesh alone
RECURSIVE Flat(_)
Flat(ss) == IF ss = <<>> THEN <<>> ELSE Head(ss) \o Flat(Tail(ss))
ArrOf(heap, ref) == IF ref = None THEN NoneArr ELSE heap[ref]
\* a point: its normal, then its vertex
ClaimPoint(pt) ==
    << <<"glNormal3dv", ArrOf(narr, pt[2])>>, <<"glVertex3dv", ArrOf(varr, pt[1])>> >>
ClaimPoly(poly) == Flat([n \in 1..Len(poly) |-> ClaimPoint(poly[n])])
\* all polygons of a bucket between one glBegin(mode) and one glEnd
ClaimBatch(mode, bucket) ==
    IF bucket = <<>> THEN <<>>
    ELSE << <<"glBegin", mode>> >>
         \o Flat([j \in 1..Len(bucket) |-> ClaimPoly(bucket[j])])
         \o << <<"glEnd">> >>
\* every polygon of a bucket between a glBegin(GL_POLYGON) and a glEnd of its own
ClaimSingles(bucket) ==
    Flat([j \in 1..Len(bucket) |->
            << <<"glBegin", "GL_POLYGON">> >> \o ClaimPoly(bucket[j]) \o << <<"glEnd">> >>])
ClaimActivation(key) ==
    IF key = None THEN <<>>
    ELSE << <<"glMaterialfv", "GL_FRONT", "GL_AMBIENT", matobjs[key].ambient>>,
            <<"glMaterialfv", "GL_FRONT", "GL_DIFFUSE", matobjs[key].diffuse>> >>
ClaimEmission(key) ==
    ClaimActivation(key)
    \o ClaimBatch("GL_TRIANGLES", polys[key][1])
    \o ClaimBatch("GL_QUADS", polys[key][2])
    \o ClaimSingles(polys[key][3])
ClaimCompiled(order) == Flat([i \in 1..Len(order) |-> ClaimEmission(order[i])])

\* C9: the display list is, for the keys of the mesh each taken once in some
\* order, the key's emission: ambient and diffuse of its material (none for
\* the "no material" key), its triangles as one GL_TRIANGLES batch, its
\* quads as one GL_QUADS batch, each general polygon as a GL_POLYGON of its
\* own; polygons in bucket order, points in their order, normal before vertex.
C9_CompileEmitsPerKey ==
    pc = "built" =>
        \E order \in IterOrders(Keys(polys)) : displaylist = ClaimCompiled(order)

\* a built model with a material key holding a triangle, a quad and a polygon
C9_Witness ==
    /\ pc = "built"
    /\ \E k \in Keys(polys) :
          /\ k # None
          /\ matobjs[k].ambient # matobjs[k].diffuse
          /\ polys[k][1] # <<>> /\ polys[k][2] # <<>> /\ polys[k][3] # <<>>

\* C10 (as claimed): compile emits the keys of the mesh in the order of their
\* first insertion.
C10_CompileInInsertionOrder ==
    pc = "built" => displaylist = ClaimCompiled(keyorder)
\* a step of _create_displaylist: it is the only caller of glGenLists
Compiled == pc \in {"parsed", "perturbed"} /\ glcalls' # glcalls

\* C11: when glGenLists returns no handle, compile raises (RuntimeError, the
\* code's ResourceExhaustedError) after that one glGenLists call: no
\* glNewList, nothing recorded; the run ends there, so the allocation is not
\* tried again and no built model exists with handle 0.
C11_AllocationFailureAborts ==
    /\ [](pc = "built" => renderlist # 0)
    /\ [][ /\ pc # "error"
           /\ (Compiled /\ renderlist' = 0 =>
                 /\ pc' = "error" /\ err' = "RuntimeError"
                 /\ glcalls' = Append(glcalls, <<"glGenLists", 1>>)
                 /\ displaylist' = <<>> /\ drawn' = <<>>) ]_vars

\* the compilation of a mesh with a stored face failed for want of a handle
C11_Witness ==
    /\ pc = "error" /\ err = "RuntimeError"
    /\ renderlist = 0 /\ polys # <<>>
    /\ glcalls = << <<"glGenLists", 1>> >>

\* a call of draw(): the one place that calls glCallList
DrawCalled == glcalls' = Append(glcalls, <<"glCallList", renderlist>>)

\* C12: on a built model with a current context every draw() makes the
\* backend execute the sequence recorded at compile time, whatever the
\* number of calls, and leaves the mesh (vertex and normal tables, material
\* registry, polygon buckets), the handle and the recorded sequence as they
\* were.
C12_DrawReplaysAndKeeps ==
    /\ [](\A i \in DOMAIN drawn : drawn[i] = displaylist)
    /\ [][ /\ (pc = "built" => renderlist' = renderlist /\ displaylist' = displaylist)
           /\ (DrawCalled /\ context =>
                 /\ drawn' = Append(drawn, displaylist)
                 /\ pc' = "built" /\ err' = err
                 /\ UNCHANGED <<vertices, normals, varr, narr, mats, matobjs,
                                polys, currentmat>>) ]_vars

\* two draws of a model that holds a face under a material
C12_Witness ==
    /\ Len(drawn) >= 2 /\ drawn[1] # <<>>
    /\ \E k \in Keys(polys) : k # None

\* C13 (as claimed): draw() on a model that is not usable (no current
\* context) raises and replays nothing; a draw() that returns was made on a
\* built model with a current context.
C13_DrawFailsWhenNotUsable ==
    [][ DrawCalled =>
          /\ (~context => pc' = "error" /\ drawn' = drawn)
          /\ (pc' # "error" => pc = "built" /\ context) ]_vars

\* the part of C13 the code keeps: no draw() replays without a context, and
\* draw() is reached on built models only
C13_NoReplayWithoutContext ==
    [][ DrawCalled => pc = "built" /\ (~context => drawn' = drawn) ]_vars

\* the loop of AsteroidModel.__init__ ran
Perturbed == pc = "parsed" /\ pc' = "perturbed"
\* the position a polygon point shows, in a heap of vertex arrays
PointPos(heap, pt) == ArrOf(heap, pt[1])
StoredPoints(p) ==
    {<<k, i, j, n>> \in Keys(p) \X (1..3) \X (1..MaxFaces) \X (1..MaxFaceLen) :
        j <= Len(p[k][i]) /\ n <= Len(p[k][i][j])}

\* C14 (as claimed): perturb leaves the mesh it starts from unmodified: the
\* vertex table and the positions held by the polygons are after perturb
\* what they were before.
C14_PerturbKeepsBaseMesh ==
    [][ Perturbed =>
          /\ \A k \in 1..(Len(vertices) - 1) :
                ArrOf(varr', vertices'[k + 1]) = ArrOf(varr, vertices[k + 1])
          /\ \A q \in StoredPoints(polys) :
                PointPos(varr', polys'[q[1]][q[2]][q[3]][q[4]])
                  = PointPos(varr, polys[q[1]][q[2]][q[3]][q[4]]) ]_vars

\* pos is the position xyz scaled by s tenths
IsScaled(pos1, xyz, s) == \A i \in 1..3 : pos1[i] * 10 = xyz[i] * s
\* the index of the vertex table that holds the array of a point
IndexOf(pt) == CHOOSE k \in 1..(Len(vertices) - 1) : vertices[k + 1] = pt[1]

\* C15: perturb draws one scalar per vertex-table entry (index 1 and up) and
\* scales the entry's three coordinates by it; every polygon point resolved
\* from that index shows the scaled position, so points of the same index
\* agree; normals, the table's references and the polygon groupings are
\* unchanged.
C15_PerturbScalesEachEntryOnce ==
    [][ Perturbed =>
          /\ DOMAIN scalars' = 1..(Len(vertices) - 1)
          /\ \A k \in 1..(Len(vertices) - 1) :
                /\ scalars'[k] \in Scalars
                /\ IsScaled(ArrOf(varr', vertices'[k + 1]),
                            ArrOf(varr, vertices[k + 1]), scalars'[k])
          /\ \A q \in StoredPoints(polys') :
                LET pt == polys'[q[1]][q[2]][q[3]][q[4]]
                IN pt[1] # None =>
                     IsScaled(PointPos(varr', pt), PointPos(varr, pt),
                              scalars'[IndexOf(pt)])
          /\ polys' = polys /\ vertices' = vertices
          /\ normals' = normals /\ narr' = narr ]_vars

\* two vertices scaled by different scalars; a triangle holds the first
\* vertex twice and the second once
C15_Witness ==
    /\ pc = "perturbed"
    /\ Len(scalars) >= 2 /\ scalars[1] # scalars[2] /\ scalars[1] # 10
    /\ \E q \in StoredPolys :
          LET poly == polys[q[1]][q[2]][q[3]]
          IN poly[1][1] = vertices[3] /\ poly[2][1] = vertices[2]
                /\ poly[3][1] = vertices[2]

\* C16: when every scalar drawn is 1, the mesh after perturb is the mesh
\* before it: positions, normals and polygon groupings.
C16_PerturbByOneIsIdentity ==
    [][ Perturbed /\ (\A k \in DOMAIN scalars' : scalars'[k] = 10) =>
          /\ varr' = varr /\ vertices' = vertices
          /\ narr' = narr /\ normals' = normals
          /\ polys' = polys ]_vars

\* a mesh of two vertices and a stored triangle, perturbed by 1 and 1
C16_Witness ==
    /\ pc = "perturbed"
    /\ Len(scalars) >= 2 /\ \A k \in DOMAIN scalars : scalars[k] = 10
    /\ StoredPolys # {}

\* the record keywords of the two formats
ModelKeywords == {"v", "vn", "mtllib", "usemtl", "f"}
MatKeywords == {"newmtl"} \cup ColorKeywords
\* _parse_model read a line; _parsemat read a line
ModelLineRead == pc = "parse" /\ line' # line
MatLineRead == pc = "mat" /\ Len(matlines') = Len(matlines) + 1

\* C17: a blank line, a comment or a line of an unknown keyword raises
\* nothing and changes nothing in either parser: vertex and normal tables,
\* registry, current material, material in progress, polygon buckets.
C17_IgnoredLinesChangeNothing ==
    [][ /\ (ModelLineRead /\ line'.kw \notin ModelKeywords =>
              /\ pc' = "parse" /\ err' = err
              /\ UNCHANGED <<vertices, normals, varr, narr, polys, currentmat>>
              /\ UNCHANGED <<mats, matobjs, matname, mat>>)
        /\ (MatLineRead /\ mline'.kw \notin MatKeywords =>
              /\ pc' = "mat" /\ err' = err
              /\ UNCHANGED <<vertices, normals, varr, narr, polys, currentmat>>
              /\ UNCHANGED <<mats, matobjs, matname, mat>>) ]_vars

\* a comment read by _parse_model after a face was stored under a material
\* whose file held an ignored line right after a colour record
C17_Witness ==
    /\ pc = "parse"
    /\ line.kw = "#"
    /\ currentmat # None /\ currentmat \in Keys(polys)
    /\ \E i \in 2..Len(matlines) :
          matlines[i].kw \in OtherKeywords /\ IsColor(matlines[i - 1])

\* fly_in or fly_out was called; a step of the ship that is no such call and
\* moves nothing but a flag is a thrust or a turn
FlyCalled == nflights' = nflights + 1
Flying == _state \in {2, 3}

\* C18: fly_in and fly_out leave the ship in state 2 or 3 with _t = 0; in a
\* flight every update raises _t by 1, keeps the state while _t < tmax and
\* sets state 1 when _t reaches tmax; so a flight leads to state 1 when
\* update keeps being called; in state 1 no update changes the state; the
\* state is never 0.
C18_FlightEndsInNormalControl ==
    /\ [](_state \in {1, 2, 3})
    /\ [](Flying => _t < _bezier.tmax)
    /\ [][ /\ (FlyCalled => _state' \in {2, 3} /\ _t' = 0)
           /\ (~FlyCalled /\ Flying =>
                 /\ _t' = _t + 1
                 /\ (_t' < _bezier.tmax => _state' = _state)
                 /\ (_t' >= _bezier.tmax => _state' = 1))
           /\ (~FlyCalled /\ _state = 1 => _state' = 1) ]_vars
    /\ (Flying ~> _state = 1)

\* a fly-out flown to its last frame
C18_Witness ==
    /\ _state = 1 /\ nflights >= 1
    /\ _bezier.tmax = FlyOutFrames /\ _t = FlyOutFrames

\* what a call of thrust or turn could touch besides the two flags
OtherShipFields == <<_state, _t, _bezier, pos, speed, theta, phi, rot>>

\* C19: in state 2 or 3 no step changes the thrust flag or the turn flag, so
\* thrust(on) and turn(dir) change nothing there; a step that changes a flag
\* happens in state 0 or 1 and changes that flag only; and in a flight every
\* update applies the flags that are set: the speed grows by
\* SHIP_ACCEL * direction() and theta is the curve's angle plus
\* SHIP_ROTSPEED * _turning, with rot following theta.
C19_FlightIgnoresControls ==
    /\ [][ Flying => _trusting' = _trusting /\ _turning' = _turning ]_vars
    /\ [][ _trusting' # _trusting =>
             /\ _state \in {0, 1} /\ _trusting' \in {0, 1}
             /\ UNCHANGED <<_turning, OtherShipFields>> ]_vars
    /\ [][ _turning' # _turning =>
             /\ _state \in {0, 1} /\ _turning' \in {-1, 0, 1}
             /\ UNCHANGED <<_trusting, OtherShipFields>> ]_vars
    /\ [][ Flying /\ ~FlyCalled =>
             LET current == BezierB(_bezier, _t') IN
             /\ (_trusting # 0 =>
                   /\ speed' = VecAdd(speed, Accel(current[4], current[5]))
                   /\ speed' # speed)
             /\ (_trusting = 0 => speed' = speed)
             /\ (_turning # 0 =>
                   /\ theta' = current[4] + SHIP_ROTSPEED * _turning
                   /\ rot' = theta')
             /\ (_turning = 0 => theta' = current[4] /\ rot' = rot + 2) ]_vars

\* a fly-out some frames old, flown with both flags set since before it began
C19_Witness ==
    /\ _state = 3 /\ _t >= 2
    /\ _trusting = 1 /\ _turning = -1
    /\ speed # <<0, 0, 0>>

\* update() was called in normal control
NormalUpdate == _state \in {0, 1} /\ nframes' = nframes + 1
\* coordinate x of a field of that size lies within the wrap range
InWrapRange(x, size) == -Fix(WRAPDIST) <= x /\ x <= Fix(size) + Fix(WRAPDIST)
\* coordinate i is q before the wrap and x after it
WrappedAs(q, x, size) ==
    /\ (q > Fix(size) + Fix(WRAPDIST) => x = -Fix(WRAPDIST))
    /\ (q < -Fix(WRAPDIST) => x = Fix(size) + Fix(WRAPDIST))
    /\ (InWrapRange(q, size) => x = q)

\* C20: after every update() in state 0 or 1, whatever the speed,
\* -WRAPDIST <= x <= WIDTH + WRAPDIST and -WRAPDIST <= y <= HEIGHT + WRAPDIST;
\* a coordinate moved past an edge by more than WRAPDIST lies exactly
\* WRAPDIST outside the opposite edge, and one inside the range is only
\* advanced by the speed.
C20_PositionStaysInWrapRange ==
    [][ NormalUpdate =>
          /\ InWrapRange(pos'[1], WIDTH)
          /\ InWrapRange(pos'[2], HEIGHT)
          /\ WrappedAs(pos[1] + speed[1], pos'[1], WIDTH)
          /\ WrappedAs(pos[2] + speed[2], pos'[2], HEIGHT)
          /\ pos'[3] = pos[3] + speed[3] ]_vars

\* a ship moving right that has just come in at the left wrap edge, its y
\* only advanced
C20_Witness ==
    /\ _state = 1 /\ nframes >= 1
    /\ pos[1] = -Fix(WRAPDIST) /\ speed[1] > Fix(WIDTH)
    /\ speed[2] \in {1, 2} /\ pos[2] \in {1, 2, 3, 4}
====
